---------------------------- MODULE Spec2Model ----------------------------
(***************************************************************************)
(* Model of the tools-app component (the function dispatcher of            *)
(* src/unnamed/part_000) and of the global error reporter                  *)
(* (src/unnamed/part_001).                                                 *)
(*                                                                         *)
(* A JavaScript string is modelled as what it is: a finite sequence of     *)
(* UTF-16 code units, each a number in 0..65535.                           *)
(***************************************************************************)
EXTENDS Integers, Sequences, FiniteSets, Bags, TLC

(***************************************************************************)
(* Bounds of the model.                                                    *)
(***************************************************************************)
\* longest text typed into the textarea of the component
MaxInputLen == 1
\* longest text given to a chain of two transformations
MaxLen == 4
\* number of digests that may be pending at once
MaxInflight == 1
\* number of failure events the reporter observes in one run
MaxEvents == 2

(***************************************************************************)
(* Code units used by the model, by name.                                  *)
(***************************************************************************)
U == [ BS |-> 8, TAB |-> 9, LF |-> 10, VT |-> 11, FF |-> 12, CR |-> 13, SP |-> 32,
       QUOTE |-> 34, PLUS |-> 43, COMMA |-> 44, SLASH |-> 47, ZERO |-> 48,
       EQ |-> 61, UPPER_A |-> 65, LBRACKET |-> 91, BACKSLASH |-> 92,
       RBRACKET |-> 93, a |-> 97,
       LBRACE |-> 123, RBRACE |-> 125, b |-> 98, e |-> 101, f |-> 102, l |-> 108, n |-> 110,
       r |-> 114, s |-> 115, t |-> 116, u |-> 117, EURO |-> 8364, HIGH_SURROGATE |-> 55296,
       REPLACEMENT |-> 65533 ]

\* the empty string
Empty == << >>

Min(x, y) == IF x <= y THEN x ELSE y

\* String.prototype.slice(k) for 0 <= k: the string without its first k units
SliceFrom(s, k) == SubSeq(s, Min(k, Len(s)) + 1, Len(s))

\* String.prototype.split(sep) for a one-unit separator
RECURSIVE SplitAcc(_, _, _, _)
SplitAcc(s, sep, i, cur) ==
    IF i > Len(s) THEN << cur >>
    ELSE IF s[i] = sep THEN << cur >> \o SplitAcc(s, sep, i + 1, Empty)
    ELSE SplitAcc(s, sep, i + 1, Append(cur, s[i]))

Split(s, sep) == SplitAcc(s, sep, 1, Empty)

\* Array.prototype.join(sep) of an array of strings, sep a string
RECURSIVE JoinFrom(_, _, _)
JoinFrom(parts, sep, i) ==
    IF i > Len(parts) THEN Empty
    ELSE IF i = Len(parts) THEN parts[i]
    ELSE parts[i] \o sep \o JoinFrom(parts, sep, i + 1)

Join(parts, sep) == JoinFrom(parts, sep, 1)

\* Number.prototype.toString() of a natural number: its decimal digits
RECURSIVE NatToString(_)
NatToString(k) ==
    IF k < 10 THEN << U.ZERO + k >>
    ELSE Append(NatToString(k \div 10), U.ZERO + (k % 10))

\* one hexadecimal digit, lowercase
HexDigit(d) == IF d < 10 THEN U.ZERO + d ELSE U.a + (d - 10)

(***************************************************************************)
(* JSON.stringify of a string and of an array of strings.                  *)
(***************************************************************************)
IsHighSurrogate(c) == c >= 55296 /\ c <= 56319
IsLowSurrogate(c) == c >= 56320 /\ c <= 57343

\* \uXXXX, four lowercase hexadecimal digits
UnicodeEscape(c) ==
    << U.BACKSLASH, U.u, HexDigit(c \div 4096), HexDigit((c \div 256) % 16),
       HexDigit((c \div 16) % 16), HexDigit(c % 16) >>

\* QuoteJSONString, one code unit at position i of s
QuoteUnit(s, i) ==
    LET c == s[i] IN
    IF c = U.QUOTE THEN << U.BACKSLASH, U.QUOTE >>
    ELSE IF c = U.BACKSLASH THEN << U.BACKSLASH, U.BACKSLASH >>
    ELSE IF c = U.BS THEN << U.BACKSLASH, U.b >>
    ELSE IF c = U.FF THEN << U.BACKSLASH, U.f >>
    ELSE IF c = U.LF THEN << U.BACKSLASH, U.n >>
    ELSE IF c = U.CR THEN << U.BACKSLASH, U.r >>
    ELSE IF c = U.TAB THEN << U.BACKSLASH, U.t >>
    ELSE IF c < U.SP THEN UnicodeEscape(c)
    ELSE IF IsHighSurrogate(c)
         THEN IF i < Len(s) /\ IsLowSurrogate(s[i + 1]) THEN << c >>
              ELSE UnicodeEscape(c)
    ELSE IF IsLowSurrogate(c)
         THEN IF i > 1 /\ IsHighSurrogate(s[i - 1]) THEN << c >>
              ELSE UnicodeEscape(c)
    ELSE << c >>

RECURSIVE QuoteFrom(_, _)
QuoteFrom(s, i) ==
    IF i > Len(s) THEN Empty ELSE QuoteUnit(s, i) \o QuoteFrom(s, i + 1)

\* a JSON.stringify that quotes a string without escaping its units
StringifyStringUnescaped(s) == << U.QUOTE >> \o s \o << U.QUOTE >>

\* JSON.stringify(s) for a string s
StringifyString(s) == << U.QUOTE >> \o QuoteFrom(s, 1) \o << U.QUOTE >>

\* JSON.stringify(lines) for an array of strings
StringifyArray(lines) ==
    << U.LBRACKET >>
    \o Join([i \in 1..Len(lines) |-> StringifyString(lines[i])], << U.COMMA >>)
    \o << U.RBRACKET >>

(***************************************************************************)
(* JSON.parse.  A parsed value is a record [k, s, items]: k is "string",   *)
(* "array", "true", "false" or "null"; s the units of a string; items the  *)
(* elements of an array.  The productions modelled are white space,        *)
(* strings with every escape, arrays and the three literals; numbers and   *)
(* objects start with units that no modelled input holds, and are          *)
(* rejected like any other unexpected unit.                                *)
(***************************************************************************)
JsonValue(k, s, items) == [k |-> k, s |-> s, items |-> items]

ParseFail == [ok |-> FALSE, val |-> JsonValue("null", Empty, << >>), next |-> 0]

ParseOk(v, next) == [ok |-> TRUE, val |-> v, next |-> next]

IsJsonSpace(c) == c \in {U.SP, U.TAB, U.LF, U.CR}

RECURSIVE SkipWs(_, _)
SkipWs(t, i) ==
    IF i <= Len(t) /\ IsJsonSpace(t[i]) THEN SkipWs(t, i + 1) ELSE i

\* the value of a hexadecimal digit, or -1
HexValue(c) ==
    IF c >= U.ZERO /\ c <= U.ZERO + 9 THEN c - U.ZERO
    ELSE IF c >= U.a /\ c <= U.f THEN c - U.a + 10
    ELSE IF c >= U.UPPER_A /\ c <= U.UPPER_A + 5 THEN c - U.UPPER_A + 10
    ELSE -1

\* the unit a one-letter escape stands for, or -1
SimpleEscape(c) ==
    IF c = U.QUOTE THEN U.QUOTE
    ELSE IF c = U.BACKSLASH THEN U.BACKSLASH
    ELSE IF c = U.SLASH THEN U.SLASH
    ELSE IF c = U.b THEN U.BS
    ELSE IF c = U.f THEN U.FF
    ELSE IF c = U.n THEN U.LF
    ELSE IF c = U.r THEN U.CR
    ELSE IF c = U.t THEN U.TAB
    ELSE -1

\* the units of a string literal, i the position after its opening quote
RECURSIVE ParseStringFrom(_, _, _)
ParseStringFrom(t, i, acc) ==
    IF i > Len(t) THEN ParseFail
    ELSE IF t[i] = U.QUOTE THEN ParseOk(JsonValue("string", acc, << >>), i + 1)
    ELSE IF t[i] < U.SP THEN ParseFail
    ELSE IF t[i] # U.BACKSLASH THEN ParseStringFrom(t, i + 1, Append(acc, t[i]))
    ELSE IF i + 1 > Len(t) THEN ParseFail
    ELSE IF SimpleEscape(t[i + 1]) >= 0
         THEN ParseStringFrom(t, i + 2, Append(acc, SimpleEscape(t[i + 1])))
    ELSE IF t[i + 1] = U.u /\ i + 5 <= Len(t)
            /\ \A j \in 2..5 : HexValue(t[i + j]) >= 0
         THEN ParseStringFrom(t, i + 6,
                  Append(acc, HexValue(t[i + 2]) * 4096 + HexValue(t[i + 3]) * 256
                              + HexValue(t[i + 4]) * 16 + HexValue(t[i + 5])))
    ELSE ParseFail

\* whether the units of lit stand at position i of t
MatchAt(t, i, lit) ==
    /\ i + Len(lit) - 1 <= Len(t)
    /\ \A j \in 1..Len(lit) : t[i + j - 1] = lit[j]

RECURSIVE ParseValue(_, _)
RECURSIVE ParseElements(_, _, _)
ParseValue(t, i0) ==
    LET i == SkipWs(t, i0) IN
    IF i > Len(t) THEN ParseFail
    ELSE IF t[i] = U.QUOTE THEN ParseStringFrom(t, i + 1, Empty)
    ELSE IF t[i] = U.LBRACKET
         THEN LET j == SkipWs(t, i + 1) IN
              IF j <= Len(t) /\ t[j] = U.RBRACKET
              THEN ParseOk(JsonValue("array", Empty, << >>), j + 1)
              ELSE ParseElements(t, j, << >>)
    ELSE IF MatchAt(t, i, << U.t, U.r, U.u, U.e >>)
         THEN ParseOk(JsonValue("true", Empty, << >>), i + 4)
    ELSE IF MatchAt(t, i, << U.f, U.a, U.l, U.s, U.e >>)
         THEN ParseOk(JsonValue("false", Empty, << >>), i + 5)
    ELSE IF MatchAt(t, i, << U.n, U.u, U.l, U.l >>)
         THEN ParseOk(JsonValue("null", Empty, << >>), i + 4)
    ELSE ParseFail

\* the elements of an array after its opening bracket, at least one
ParseElements(t, i, acc) ==
    LET e == ParseValue(t, i) IN
    IF ~e.ok THEN ParseFail
    ELSE LET j == SkipWs(t, e.next) IN
         IF j > Len(t) THEN ParseFail
         ELSE IF t[j] = U.COMMA THEN ParseElements(t, j + 1, Append(acc, e.val))
         ELSE IF t[j] = U.RBRACKET
              THEN ParseOk(JsonValue("array", Empty, Append(acc, e.val)), j + 1)
         ELSE ParseFail

\* JSON.parse(t): ok is FALSE where it throws a SyntaxError
JsonParse(t) ==
    LET v == ParseValue(t, 1) IN
    IF v.ok /\ SkipWs(t, v.next) > Len(t) THEN v ELSE ParseFail

\* ToString of an array element inside Array.prototype.join
RECURSIVE ElementToString(_)
ElementToString(v) ==
    IF v.k = "string" THEN v.s
    ELSE IF v.k = "null" THEN Empty
    ELSE IF v.k = "true" THEN << U.t, U.r, U.u, U.e >>
    ELSE IF v.k = "false" THEN << U.f, U.a, U.l, U.s, U.e >>
    ELSE Join([i \in 1..Len(v.items) |-> ElementToString(v.items[i])], << U.COMMA >>)

\* parsed.join(sep): only an array has a join method
JoinParsed(v, sep) ==
    Join([i \in 1..Len(v.items) |-> ElementToString(v.items[i])], sep)


(***************************************************************************)
(* btoa and atob.  A result is [threw, value]: threw where the platform    *)
(* function throws (InvalidCharacterError).                                *)
(***************************************************************************)
Threw == [threw |-> TRUE, value |-> Empty]

Returned(v) == [threw |-> FALSE, value |-> v]

\* the base64 digit of a six-bit value
B64Digit(v) ==
    IF v < 26 THEN U.UPPER_A + v
    ELSE IF v < 52 THEN U.a + (v - 26)
    ELSE IF v < 62 THEN U.ZERO + (v - 52)
    ELSE IF v = 62 THEN U.PLUS
    ELSE U.SLASH

\* the six-bit value of a base64 digit, or -1
B64Value(c) ==
    IF c >= U.UPPER_A /\ c <= U.UPPER_A + 25 THEN c - U.UPPER_A
    ELSE IF c >= U.a /\ c <= U.a + 25 THEN c - U.a + 26
    ELSE IF c >= U.ZERO /\ c <= U.ZERO + 9 THEN c - U.ZERO + 52
    ELSE IF c = U.PLUS THEN 62
    ELSE IF c = U.SLASH THEN 63
    ELSE -1

RECURSIVE EncodeFrom(_, _)
EncodeFrom(bytes, i) ==
    LET left == Len(bytes) - i + 1 IN
    IF left <= 0 THEN Empty
    ELSE IF left = 1
         THEN << B64Digit(bytes[i] \div 4), B64Digit((bytes[i] % 4) * 16), U.EQ, U.EQ >>
    ELSE IF left = 2
         THEN << B64Digit(bytes[i] \div 4),
                 B64Digit((bytes[i] % 4) * 16 + bytes[i + 1] \div 16),
                 B64Digit((bytes[i + 1] % 16) * 4), U.EQ >>
    ELSE << B64Digit(bytes[i] \div 4),
            B64Digit((bytes[i] % 4) * 16 + bytes[i + 1] \div 16),
            B64Digit((bytes[i + 1] % 16) * 4 + (bytes[i + 2] \div 64)),
            B64Digit(bytes[i + 2] % 64) >>
         \o EncodeFrom(bytes, i + 3)

\* btoa(s): throws when a unit is above 255
Btoa(s) ==
    IF \E i \in 1..Len(s) : s[i] > 255 THEN Threw ELSE Returned(EncodeFrom(s, 1))

IsAsciiSpace(c) == c \in {U.TAB, U.LF, U.FF, U.CR, U.SP}

\* s without its ASCII white space
RECURSIVE StripSpace(_, _)
StripSpace(s, i) ==
    IF i > Len(s) THEN Empty
    ELSE IF IsAsciiSpace(s[i]) THEN StripSpace(s, i + 1)
    ELSE << s[i] >> \o StripSpace(s, i + 1)

\* the bytes of base64 digits d (no padding, length not 1 modulo 4)
RECURSIVE DecodeFrom(_, _)
DecodeFrom(d, i) ==
    LET left == Len(d) - i + 1
        v(j) == B64Value(d[i + j])
    IN
    IF left <= 0 THEN Empty
    ELSE IF left = 2 THEN << v(0) * 4 + v(1) \div 16 >>
    ELSE IF left = 3
         THEN << v(0) * 4 + v(1) \div 16, (v(1) % 16) * 16 + v(2) \div 4 >>
    ELSE << v(0) * 4 + v(1) \div 16, (v(1) % 16) * 16 + v(2) \div 4,
            (v(2) % 4) * 64 + v(3) >>
         \o DecodeFrom(d, i + 4)

\* atob(s): the forgiving-base64 decode
Atob(s) ==
    LET d0 == StripSpace(s, 1)
        d1 == IF Len(d0) % 4 = 0 /\ Len(d0) > 0 /\ d0[Len(d0)] = U.EQ
              THEN IF d0[Len(d0) - 1] = U.EQ
                   THEN SubSeq(d0, 1, Len(d0) - 2)
                   ELSE SubSeq(d0, 1, Len(d0) - 1)
              ELSE d0
    IN
    IF Len(d1) % 4 = 1 THEN Threw
    ELSE IF \E i \in 1..Len(d1) : B64Value(d1[i]) < 0 THEN Threw
    ELSE Returned(DecodeFrom(d1, 1))

(***************************************************************************)
(* hashHex: the lowercase hexadecimal digest of the UTF-8 bytes of the     *)
(* message.                                                                *)
(***************************************************************************)
\* the UTF-8 bytes of a code point
Utf8(cp) ==
    IF cp < 128 THEN << cp >>
    ELSE IF cp < 2048 THEN << 192 + cp \div 64, 128 + (cp % 64) >>
    ELSE IF cp < 65536
         THEN << 224 + cp \div 4096, 128 + ((cp \div 64) % 64), 128 + (cp % 64) >>
    ELSE << 240 + cp \div 262144, 128 + ((cp \div 4096) % 64),
            128 + ((cp \div 64) % 64), 128 + (cp % 64) >>

\* new TextEncoder().encode(s): a surrogate pair is one code point, a lone
\* surrogate is replaced by U+FFFD
RECURSIVE TextEncode(_, _)
TextEncode(s, i) ==
    IF i > Len(s) THEN Empty
    ELSE IF IsHighSurrogate(s[i]) /\ i < Len(s) /\ IsLowSurrogate(s[i + 1])
         THEN Utf8(65536 + (s[i] - 55296) * 1024 + (s[i + 1] - 56320))
              \o TextEncode(s, i + 2)
    ELSE IF IsHighSurrogate(s[i]) \/ IsLowSurrogate(s[i])
         THEN Utf8(U.REPLACEMENT) \o TextEncode(s, i + 1)
    ELSE Utf8(s[i]) \o TextEncode(s, i + 1)

\* the supported digest algorithms and the length of their digests in bytes
DigestLength == [x \in {"SHA-1", "SHA-256", "SHA-512"} |->
                    IF x = "SHA-1" THEN 20 ELSE IF x = "SHA-256" THEN 32 ELSE 64]

\* crypto.subtle.digest(algorithm, bytes).  The compression function of the
\* platform is replaced by a small mixing function: the digest is a total,
\* deterministic function of the algorithm and the bytes, of the
\* algorithm's length, and that is all the dispatcher relies on.
RECURSIVE Mix(_, _, _)
Mix(bytes, i, h) ==
    IF i > Len(bytes) THEN h ELSE Mix(bytes, i + 1, (h * 31 + bytes[i] + i) % 256)

Digest(algorithm, bytes) ==
    [k \in 1..DigestLength[algorithm] |->
        Mix(bytes, 1, (k * 7 + DigestLength[algorithm] + Len(bytes)) % 256)]

\* b.toString(16).padStart(2, "0")
ByteHex(b) == << HexDigit(b \div 16), HexDigit(b % 16) >>

\* Array.from(bytes).map(...).join('')
hashHex(message, algorithm) ==
    LET d == Digest(algorithm, TextEncode(message, 1))
        hex == [k \in 1..Len(d) |-> ByteHex(d[k])]
    IN [j \in 1..2 * Len(d) |-> hex[(j + 1) \div 2][2 - (j % 2)]]

(***************************************************************************)
(* deindent                                                                *)
(***************************************************************************)
\* the units \s matches in a regular expression without the u flag
IsSpace(c) ==
    \/ c \in {U.TAB, U.LF, U.VT, U.FF, U.CR, U.SP, 160, 5760, 8232, 8233, 8239,
              8287, 12288, 65279}
    \/ (c >= 8192 /\ c <= 8202)

\* the length of the match of /^\s+/ on line, 0 for no match
RECURSIVE LeadingSpace(_, _)
LeadingSpace(line, i) ==
    IF i <= Len(line) /\ IsSpace(line[i]) THEN 1 + LeadingSpace(line, i + 1) ELSE 0

\* Math.min(...lengths), with Infinity (no length) turned into 0
MinOf(lengths) ==
    IF lengths = {} THEN 0
    ELSE CHOOSE m \in lengths : \A k \in lengths : m <= k

Deindent(input) ==
    LET lines == Split(input, U.LF)
        matches == {LeadingSpace(lines[i], 1) : i \in 1..Len(lines)} \ {0}
        num_characters_to_remove == MinOf(matches)
    IN Join([i \in 1..Len(lines) |-> SliceFrom(lines[i], num_characters_to_remove)],
            << U.LF >>)


(***************************************************************************)
(* The tools-app component.                                                *)
(***************************************************************************)
VARIABLES
    textarea,           \* value of the input textarea
    select,             \* value of the select element
    _outputValue,
    _inputError,
    _focusAfterSelect,
    _lastFunction,      \* localStorage.getItem('last_function') at construction
    storage,            \* localStorage['last_function']
    inflight,           \* the bag of the digests started and not yet resolved,
                        \* each with the _inputChange call that awaits it
    rejected,           \* whether a call of _inputChange has thrown
    focused,            \* the element holding the focus: "input" or "select"
    lastPointer,        \* pointer type of the last pointerdown on the select
                        \* since its last change, "none" if there was none
    changedBy,          \* the device behind the change event, in the state that
                        \* follows one; "none" in every other state
    \* a chain of two transformations, the second applied to the output of
    \* the first
    chainInput,         \* the text given to the first transformation
    first,              \* the first transformation and its result
    second,             \* the second transformation and its result
    \* the error reporter
    handled             \* the failure events observed so far, each with what
                        \* its observer did

appVars == << textarea, select, _outputValue, _inputError, _focusAfterSelect,
              _lastFunction, storage, inflight, rejected, focused, lastPointer,
              changedBy >>

chainVars == << chainInput, first, second >>

reporterVars == << handled >>

vars == << appVars, chainVars, reporterVars >>

HashFunctions == {"SHA-1", "SHA-256", "SHA-512"}

\* the values of the options of the select element
FunctionIds ==
    {"decode-base64", "encode-base64", "json-escape", "lines-to-json-array",
     "json-array-to-lines", "length", "deindent"} \cup HashFunctions

\* the option a select element without a selected option shows: its first
DefaultOption == "decode-base64"

\* HTMLSelectElement.value: the value of the selected option, "" when no
\* option is selected, the value _inputChange returns early on
SelectValues == FunctionIds \cup {""}

\* localStorage.getItem of a key that is not set
Null == "<null>"

\* the texts typed into the textarea: the empty text, which every function
\* accepts but json-array-to-lines, and texts of a unit above 255, which btoa,
\* atob and JSON.parse reject
InputChars == {U.EURO}

Strings(chars, maxLen) == UNION {[1..k -> chars] : k \in 0..maxLen}

Inputs == Strings(InputChars, MaxInputLen)

PointerTypes == {"mouse", "touch", "pen"}

\* a digest that can be pending: the algorithm and the message of the
\* _inputChange call that awaits it
Pending == [algorithm : HashFunctions, message : Inputs]

\* what the awaited hashHex call of a pending digest resolves to.  f @@ << >>
\* is f: written so, TLC holds the digests as a table instead of computing
\* one at every use
Resolution == [d \in Pending |-> hashHex(d.message, d.algorithm) @@ << >>] @@ << >>

\* the body of a case of the switch that is not a hash: [threw, value], threw
\* where the try block throws
SyncTransform(functionName, functionInput) ==
    IF functionName = "encode-base64" THEN Btoa(functionInput)
    ELSE IF functionName = "decode-base64" THEN Atob(functionInput)
    ELSE IF functionName = "json-escape"
         THEN LET q == StringifyString(functionInput) IN
              Returned(SubSeq(q, 2, Len(q) - 1))
    ELSE IF functionName = "lines-to-json-array"
         THEN Returned(StringifyArray(Split(functionInput, U.LF)))
    ELSE IF functionName = "json-array-to-lines"
         THEN LET parsed == JsonParse(functionInput) IN
              IF parsed.ok /\ parsed.val.k = "array"
              THEN Returned(JoinParsed(parsed.val, << U.LF >>))
              ELSE Threw
    ELSE IF functionName = "length" THEN Returned(NatToString(Len(functionInput)))
    ELSE Returned(Deindent(functionInput))

\* the digests pending once the digest d has been started
StartDigest(pending, d) == pending (+) SetToBag({d})

\* a setItem that stores nothing
SetItemDropped(stored, value) == stored

\* localStorage.setItem(lastFunctionIdentifier, value)
SetItem(stored, value) == value

\* _inputChange, up to its return or its await
_inputChange(functionInput, functionName) ==
    IF functionName = ""
    THEN /\ _inputError' = FALSE
         /\ UNCHANGED << _outputValue, inflight, rejected >>
    ELSE IF functionName \in HashFunctions
    THEN /\ _inputError' = FALSE
         /\ inflight' = StartDigest(inflight,
                [algorithm |-> functionName, message |-> functionInput])
         /\ UNCHANGED << _outputValue, rejected >>
    ELSE IF functionName \in FunctionIds
    THEN LET result == SyncTransform(functionName, functionInput) IN
         /\ _inputError' = result.threw
         /\ _outputValue' = result.value
         /\ UNCHANGED << inflight, rejected >>
    ELSE /\ _inputError' = FALSE
         /\ rejected' = TRUE
         /\ UNCHANGED << _outputValue, inflight >>

\* whether _inputChange may start one more digest within the bound
WithinBound(functionName) ==
    functionName \in HashFunctions => BagCardinality(inflight) < MaxInflight

\* firstUpdated: the option that is selected once the component is rendered
firstUpdated(lastFunction) ==
    IF lastFunction # Null /\ lastFunction # "" /\ lastFunction \in FunctionIds
    THEN lastFunction
    ELSE DefaultOption

AppInit ==
    /\ _lastFunction \in {Null, "length"}
    /\ storage = _lastFunction
    /\ select = firstUpdated(_lastFunction)
    /\ textarea = Empty
    /\ _outputValue = Empty
    /\ _inputError = FALSE
    /\ _focusAfterSelect = FALSE
    /\ inflight = EmptyBag
    /\ rejected = FALSE
    /\ focused = "input"
    /\ lastPointer = "none"
    /\ changedBy = "none"

\* pointerdown on the select element
_selectPointerDown(pointerType) ==
    /\ _focusAfterSelect' =
          IF pointerType = "mouse" \/ pointerType = "touch"
          THEN TRUE ELSE _focusAfterSelect
    /\ lastPointer' = pointerType
    /\ focused' = "select"
    /\ changedBy' = "none"
    /\ UNCHANGED << textarea, select, _outputValue, _inputError, _lastFunction,
                    storage, inflight, rejected, chainVars, reporterVars >>

SelectPointerDown == \E pointerType \in PointerTypes : _selectPointerDown(pointerType)

\* input event of the textarea: the user has edited the text
InputEdit ==
    \E text \in Inputs :
        /\ text # textarea
        /\ WithinBound(select)
        /\ textarea' = text
        /\ _inputChange(text, select)
        /\ focused' = "input"
        /\ changedBy' = "none"
        /\ UNCHANGED << select, _focusAfterSelect, _lastFunction, storage,
                        lastPointer, chainVars, reporterVars >>

\* change event of the select element: the user has chosen another option,
\* with the keyboard or with the pointer that went down on the element
_selectChange(device, value) ==
    /\ value # select
    /\ device = "keyboard" \/ device = lastPointer
    /\ WithinBound(value)
    /\ select' = value
    /\ storage' = SetItem(storage, value)
    /\ _inputChange(textarea, value)
    /\ focused' = IF _focusAfterSelect THEN "input" ELSE "select"
    /\ _focusAfterSelect' = FALSE
    /\ lastPointer' = "none"
    /\ changedBy' = device
    /\ UNCHANGED << textarea, _lastFunction, chainVars, reporterVars >>

SelectChange ==
    \E device \in PointerTypes \cup {"keyboard"}, value \in SelectValues :
        _selectChange(device, value)

\* the pending digests without one copy of the digest d
Remove(pending, d) == pending (-) SetToBag({d})

\* a resolution that is sequenced: the digest of a dispatch that is no longer
\* the latest is dropped
DigestResolvedIfLatest(d) ==
    /\ d \in BagToSet(inflight)
    /\ _outputValue' =
          IF d.algorithm = select /\ d.message = textarea
          THEN Resolution[d]
          ELSE _outputValue
    /\ inflight' = Remove(inflight, d)
    /\ changedBy' = "none"
    /\ UNCHANGED << textarea, select, _inputError, _focusAfterSelect,
                    _lastFunction, storage, rejected, focused, lastPointer,
                    chainVars, reporterVars >>

\* a pending digest resolves and the _inputChange call awaiting it resumes
DigestResolved(d) ==
    /\ d \in BagToSet(inflight)
    /\ _outputValue' = Resolution[d]
    /\ inflight' = Remove(inflight, d)
    /\ changedBy' = "none"
    /\ UNCHANGED << textarea, select, _inputError, _focusAfterSelect,
                    _lastFunction, storage, rejected, focused, lastPointer,
                    chainVars, reporterVars >>

DigestResolve == \E d \in BagToSet(inflight) : DigestResolved(d)


(***************************************************************************)
(* Two transformations in a row, the second given the output of the first. *)
(***************************************************************************)
SyncFunctions == FunctionIds \ HashFunctions

ChainChars == {U.a, U.SP, U.TAB, U.LF, U.QUOTE, U.BACKSLASH, U.HIGH_SURROGATE}

NoResult == [fn |-> "", threw |-> FALSE, value |-> Empty]

\* what _inputChange leaves in _inputError (threw) and _outputValue (value)
Apply(fn, text) ==
    LET result == SyncTransform(fn, text) IN
    [fn |-> fn, threw |-> result.threw, value |-> result.value]

ChainInit ==
    /\ chainInput \in Strings(ChainChars, MaxLen)
    /\ first = NoResult
    /\ second = NoResult

ChainQuiet ==
    /\ chainInput = Empty
    /\ first = NoResult
    /\ second = NoResult

ApplyFirst ==
    \E fn \in SyncFunctions :
        /\ first = NoResult
        /\ first' = Apply(fn, chainInput)
        /\ UNCHANGED << chainInput, second, appVars, reporterVars >>

ApplySecond ==
    \E fn \in SyncFunctions :
        /\ first # NoResult
        /\ ~first.threw
        /\ second = NoResult
        /\ second' = Apply(fn, first.value)
        /\ UNCHANGED << chainInput, first, appVars, reporterVars >>


(***************************************************************************)
(* The error reporter.                                                     *)
(*                                                                         *)
(* A JavaScript value, as JSON.stringify sees it, is a record              *)
(* [kind, str, members]: kind is "undefined", "null", "string", "number",  *)
(* "bigint", "object" or "cyclic" (an object that refers to itself); str   *)
(* the units of a string or the digits of a number; members the            *)
(* enumerable own properties of an object, each [key, val].                *)
(***************************************************************************)
Js(kind, str, members) == [kind |-> kind, str |-> str, members |-> members]

Undefined == Js("undefined", Empty, << >>)

Str(s) == Js("string", s, << >>)

Num(k) == Js("number", NatToString(k), << >>)

\* texts the reporter handles, as code units
Text == [ Error |-> << 69, 114, 114, 111, 114 >>,
          TypeError |-> << 84, 121, 112, 101, 69, 114, 114, 111, 114 >>,
          DOMException |-> << 68, 79, 77, 69, 120, 99, 101, 112, 116, 105, 111, 110 >>,
          String |-> << 83, 116, 114, 105, 110, 103 >>,
          BigInt |-> << 66, 105, 103, 73, 110, 116 >>,
          Object |-> << 79, 98, 106, 101, 99, 116 >>,
          undefined |-> << 117, 110, 100, 101, 102, 105, 110, 101, 100 >>,
          object |-> << 111, 98, 106, 101, 99, 116 >>,
          string |-> << 115, 116, 114, 105, 110, 103 >>,
          bigint |-> << 98, 105, 103, 105, 110, 116 >>,
          null |-> << U.n, U.u, U.l, U.l >>,
          stack |-> << U.a, U.t >>,
          message |-> << U.b >> ]

\* A value an event carries: js is the value as JSON.stringify sees it,
\* ctor the name of its constructor (Empty where value?.constructor?.name is
\* nullish), protos the constructors it is an instance of, and name, stack,
\* message, code and cause its properties of those names.
Trigger(js, ctor, protos, name, stack, message, code, cause) ==
    [js |-> js, ctor |-> ctor, protos |-> protos, name |-> name, stack |-> stack,
     message |-> message, code |-> code, cause |-> cause]

Primitive(js, ctor) ==
    Trigger(js, ctor, {}, Undefined, Undefined, Undefined, Undefined, Undefined)

\* new Error(message, {cause}): its own properties are not enumerable
ErrorValue(ctor, cause) ==
    Trigger(Js("object", Empty, << >>), ctor, {ctor, Text.Error}, Str(ctor),
            Str(Text.stack), Str(Text.message), Undefined, cause)

\* a DOMException: its prototype inherits from Error.prototype, and its
\* properties are accessors of the prototype
DomExceptionValue ==
    Trigger(Js("object", Empty, << >>), Text.DOMException,
            {Text.DOMException, Text.Error}, Str(Text.DOMException),
            Str(Text.stack), Str(Text.message), Num(0), Undefined)

\* the values of the cause of an Error
Causes == {Undefined, Str(<< U.a >>), Js("bigint", Empty, << >>),
           Js("cyclic", Empty, << >>)}

\* the values thrown or rejected with
TriggerValues ==
    {Primitive(Str(s), Text.String) : s \in {Empty, << U.a >>, << U.QUOTE >>}}
    \cup {Primitive(Undefined, Empty),
          Primitive(Js("null", Empty, << >>), Empty),
          Primitive(Js("bigint", Empty, << >>), Text.BigInt),
          Primitive(Js("object", Empty, << >>), Text.Object),
          Primitive(Js("cyclic", Empty, << >>), Text.Object),
          DomExceptionValue}
    \cup {ErrorValue(Text.Error, c) : c \in Causes}
    \cup {ErrorValue(Text.TypeError, Undefined)}

\* typeof value
TypeOf(v) ==
    IF v.js.kind = "undefined" THEN Text.undefined
    ELSE IF v.js.kind = "string" THEN Text.string
    ELSE IF v.js.kind = "bigint" THEN Text.bigint
    ELSE Text.object

\* value?.constructor?.name ?? typeof value
TypeTag(v) == IF v.ctor # Empty THEN v.ctor ELSE TypeOf(v)

\* value instanceof C
InstanceOf(v, C) == C \in v.protos

\* whether JSON.stringify throws on the value: a BigInt or a cycle, at any depth
RECURSIVE StringifyThrows(_)
StringifyThrows(js) ==
    \/ js.kind \in {"bigint", "cyclic"}
    \/ \E i \in 1..Len(js.members) : StringifyThrows(js.members[i].val)

\* the members JSON.stringify writes: those whose value is not undefined
RECURSIVE Written(_, _)
Written(members, i) ==
    IF i > Len(members) THEN << >>
    ELSE IF members[i].val.kind = "undefined" THEN Written(members, i + 1)
    ELSE << [key |-> members[i].key,
             val |-> Js(members[i].val.kind, members[i].val.str,
                        Written(members[i].val.members, 1))] >>
         \o Written(members, i + 1)

\* JSON.stringify(value) of a value without members: [threw, undefined, text]
StringifyValue(js) ==
    IF StringifyThrows(js) THEN [threw |-> TRUE, undefined |-> FALSE, text |-> Empty]
    ELSE IF js.kind = "undefined"
         THEN [threw |-> FALSE, undefined |-> TRUE, text |-> Empty]
    ELSE [threw |-> FALSE, undefined |-> FALSE,
          text |-> IF js.kind = "string" THEN StringifyString(js.str)
                   ELSE IF js.kind = "null" THEN Text.null
                   ELSE IF js.kind = "number" THEN js.str
                   ELSE << U.LBRACE, U.RBRACE >>]

\* JSON.stringify(body) of an object: [threw, doc], doc the members of the
\* JSON document written, in order
StringifyBody(body) ==
    IF StringifyThrows(body) THEN [threw |-> TRUE, doc |-> << >>]
    ELSE [threw |-> FALSE, doc |-> Written(body.members, 1)]

Member(key, val) == [key |-> key, val |-> val]

getErrorDetails(error) ==
    Js("object", Empty,
       << Member("cause", error.cause), Member("stack", error.stack),
          Member("name", error.name) >>)

getDomExceptionDetails(error) ==
    Js("object", Empty,
       << Member("message", error.message), Member("name", error.name),
          Member("code", error.code) >>)

\* the try block around the first JSON.stringify: undefined when it throws
RawOf(value) ==
    LET raw == StringifyValue(value.js) IN
    IF raw.threw \/ raw.undefined THEN Undefined ELSE Str(raw.text)

\* the details put into body.error
DetailsOf(value) ==
    IF InstanceOf(value, Text.Error) THEN getErrorDetails(value)
    ELSE IF InstanceOf(value, Text.DOMException) THEN getDomExceptionDetails(value)
    ELSE Undefined

\* the body the "error" listener assembles
ErrorBody(ev) ==
    Js("object", Empty,
       << Member("colno", ev.colno), Member("filename", ev.filename),
          Member("lineno", ev.lineno), Member("message", ev.message),
          Member("type", Str(TypeTag(ev.error))),
          Member("rawError", RawOf(ev.error)),
          Member("error", DetailsOf(ev.error)) >>)

\* the body the "unhandledrejection" listener assembles
RejectionReasonBody(ev) ==
    Js("object", Empty,
       << Member("type", Str(TypeTag(ev.reason))),
          Member("rawReason", RawOf(ev.reason)),
          Member("error", DetailsOf(ev.reason)) >>)

\* what a listener does with the body: fetch(url, {body: JSON.stringify(body)}),
\* or the exception JSON.stringify throws
Observe(observer, value, url, body) ==
    LET text == StringifyBody(body) IN
    [observer |-> observer, value |-> value, threw |-> text.threw,
     sent |-> ~text.threw, url |-> IF text.threw THEN "" ELSE url,
     doc |-> text.doc]

ReporterInit == handled = << >>

\* window "error" listener
ErrorEvent ==
    \E value \in TriggerValues :
        /\ Len(handled) < MaxEvents
        /\ handled' = Append(handled,
              Observe("error", value, "/api/report/error",
                  ErrorBody([error |-> value, colno |-> Num(1),
                             filename |-> Str(<< U.a >>), lineno |-> Num(1),
                             message |-> Str(Text.message)])))
        /\ UNCHANGED << appVars, chainVars >>

\* window "unhandledrejection" listener
UnhandledRejection ==
    \E value \in TriggerValues :
        /\ Len(handled) < MaxEvents
        /\ handled' = Append(handled,
              Observe("unhandledrejection", value, "/api/report/unhandled-rejection",
                  RejectionReasonBody([reason |-> value])))
        /\ UNCHANGED << appVars, chainVars >>

(***************************************************************************)
(* Specifications.                                                         *)
(***************************************************************************)
\* the component, before any event, with nothing stored
AppQuiet == AppInit /\ _lastFunction = Null

\* the tools-app component
Init == AppInit /\ ChainQuiet /\ ReporterInit

Next == SelectPointerDown \/ InputEdit \/ SelectChange \/ DigestResolve

Spec == Init /\ [][Next]_vars

\* two transformations in a row
InitChain == AppQuiet /\ ChainInit /\ ReporterInit

NextChain == ApplyFirst \/ ApplySecond

SpecChain == InitChain /\ [][NextChain]_vars

\* the error reporter
InitReporter == AppQuiet /\ ChainQuiet /\ ReporterInit

NextReporter == ErrorEvent \/ UnhandledRejection

SpecReporter == InitReporter /\ [][NextReporter]_vars


(***************************************************************************)
(* Properties.                                                             *)
(***************************************************************************)
\* a step in which _inputChange runs: an input edit or a selection change
Dispatches == InputEdit \/ SelectChange

\* C1: in every reachable state of the component, whenever the error flag
\* _inputError is true the output _outputValue is the empty string.
C1_ErrorImpliesEmptyOutput == _inputError => _outputValue = Empty

\* the two ends of a dispatch that computes expected: the error flag false
\* with the computed output, or the error flag true with the empty output
WellFormed(error, output, expected) ==
    \/ ~error /\ output = expected
    \/ error /\ output = Empty

\* C2: a dispatch for one of the ten function identifiers never throws or
\* rejects, and ends either with the error flag false and the computed output
\* or with the error flag true and the output empty.  A hash dispatch ends
\* when its digest resolves, every other dispatch in the step that starts it.
C2_DispatchEndsWellFormed ==
    [][ /\ ~rejected'
        /\ (Dispatches /\ select' \in SyncFunctions)
              => WellFormed(_inputError', _outputValue',
                            SyncTransform(select', textarea').value)
        /\ \A d \in BagToSet(inflight) :
              DigestResolved(d)
                 => WellFormed(_inputError', _outputValue', Resolution[d])
      ]_vars

\* C3: a dispatch performed while the selected function identifier is empty
\* leaves the prior output and the prior error flag unchanged.
C3_EmptySelectionIsNoOp ==
    [][ (Dispatches /\ select' = "")
           => (_outputValue' = _outputValue /\ _inputError' = _inputError) ]_vars

\* C7: a selection change returns the focus to the input field exactly when
\* the device behind that change was a mouse or a touch pointer.
C7_FocusExactlyAfterPointer ==
    changedBy # "none" => (focused = "input" <=> changedBy \in {"mouse", "touch"})

\* C8: every selection change overwrites the stored last_function with the
\* selected function identifier, and a dispatch triggered by an input edit and
\* a digest resolution leave it unchanged; so it is always the identifier of
\* the last selection change, or the value found at startup.
C8_StoredOnSelectionOnly ==
    /\ [][ IF changedBy' # "none" THEN storage' = select'
           ELSE storage' = storage ]_vars
    /\ [](storage = select \/ storage = _lastFunction)

\* C8, witness: a selection change has stored an identifier other than the
\* startup value, and an input edit has followed it.
C8_Witness ==
    /\ storage = select
    /\ storage # _lastFunction
    /\ select # firstUpdated(_lastFunction)
    /\ changedBy = "none"
    /\ textarea # Empty

\* C10: nothing sequences or cancels a pending digest: whatever is
\* dispatched after it started, it stays pending until it resolves, and its
\* resolution writes its digest to the output.
C10_PendingDigestOverwrites ==
    [][ (inflight' # inflight /\ ~(inflight \sqsubseteq inflight'))
           => \E d \in BagToSet(inflight) :
                 /\ inflight' = Remove(inflight, d)
                 /\ _outputValue' = Resolution[d] ]_vars

\* C10, witness: the latest dispatch was for a function that is not a hash
\* and succeeded, and the output shown is not its result but the digest of an
\* earlier dispatch, which resolved after it.
C10_Witness ==
    /\ select \in SyncFunctions
    /\ ~_inputError
    /\ inflight = EmptyBag
    /\ _outputValue # SyncTransform(select, textarea).value
    /\ \E d \in Pending : d.message # textarea /\ _outputValue = Resolution[d]


\* C5: deindent is idempotent: deindent applied to its own output returns
\* that output.
C5_DeindentIdempotent ==
    (first.fn = "deindent" /\ second.fn = "deindent") => second.value = first.value

\* C6: lines-to-json-array followed by json-array-to-lines gives back the
\* text it started from, with the error flag false.
C6_LinesRoundTrip ==
    (first.fn = "lines-to-json-array" /\ second.fn = "json-array-to-lines")
       => (~second.threw /\ second.value = chainInput)

\* C6, witness: the round trip of a text with a unit that JSON escapes, and
\* with an empty line.
C6_Witness ==
    /\ first.fn = "lines-to-json-array"
    /\ second.fn = "json-array-to-lines"
    /\ chainInput = << U.QUOTE, U.LF, U.LF >>
    /\ first.value = << U.LBRACKET, U.QUOTE, U.BACKSLASH, U.QUOTE, U.QUOTE, U.COMMA,
                        U.QUOTE, U.QUOTE, U.COMMA, U.QUOTE, U.QUOTE, U.RBRACKET >>
    /\ second.value = chainInput

\* the member of a JSON document with the given key, as a set: empty when
\* the document has no such member
MembersOf(doc, key) == {doc[i].val : i \in {j \in 1..Len(doc) : doc[j].key = key}}

\* C4: neither observer ever throws, whatever the triggering value.
C4_ObserversNeverThrow == \A i \in 1..Len(handled) : ~handled[i].threw

\* C9: for both observers, a plain string produces a report without the
\* error member and with the raw serialization of the string (rawError for
\* an uncaught error, rawReason for a rejection), and an Error instance
\* produces a report whose error member holds name and stack.
C9_ReportShape ==
    \A i \in 1..Len(handled) :
        LET h == handled[i]
            rawKey == IF h.observer = "error" THEN "rawError" ELSE "rawReason"
        IN
        /\ h.value.js.kind = "string"
              => /\ h.sent
                 /\ MembersOf(h.doc, "error") = {}
                 /\ MembersOf(h.doc, rawKey) = {Str(StringifyString(h.value.js.str))}
        /\ InstanceOf(h.value, Text.Error)
              => /\ h.sent
                 /\ \E e \in MembersOf(h.doc, "error") :
                       /\ MembersOf(e.members, "name") # {}
                       /\ MembersOf(e.members, "stack") # {}


=============================================================================
